---- MODULE Spec2Model ----
(***************************************************************************)
(* Model of paykit-lib: the facade operations of lib.rs over the Pubky     *)
(* adapters of transport/pubky.  Strings are sequences of tokens: "/" is   *)
(* the path separator, every other token is a slash-free piece of text.    *)
(* The storage network (get / list / put / delete) is the environment; it  *)
(* answers from the stored documents or fails.                             *)
(***************************************************************************)
EXTENDS Integers, Sequences, FiniteSets, TLC

\* ------------------------------------------------------------------ bounds
\* most endpoint documents the payee keeps at one time
MaxFiles == 2
\* most contact marker files the owner keeps
MaxMarkers == 2
\* most writes that complete while one read is in flight
MaxOverlap == 2

\* ------------------------------------------------------- program constants
PAYKIT_PATH_PREFIX == <<"/", "pub", "/", "paykit.app", "/", "v0", "/">>
PUBKY_FOLLOWS_PATH == <<"/", "pub", "/", "pubky.app", "/", "follows", "/">>
NOT_FOUND == 404
GONE == 410

\* ---------------------------------------------------------------- inputs
\* public keys; Owner holds the session, the other key has published nothing
Owner == "alice"
Keys == {"alice", "bob"}
\* method identifiers: two plain ones and one that contains the separator
MethodIds == {<<"a">>, <<"b">>, <<"a", "/", "b">>}
\* endpoint payloads (text): the empty one, "x" (one byte) and U+00E9 (two bytes)
Datas == {<<>>, <<120>>, <<233>>}
\* marker file names put under the follows directory
MarkerNames == {<<"alice">>, <<"bob">>, <<"bad">>, <<"oops">>, <<"dir", "/", "bob">>}

\* ------------------------------------------------------------- sequences
RECURSIVE SeqsOf(_)
\* every ordering of a finite set, as sequences without repetition
SeqsOf(S) ==
    IF S = {} THEN {<<>>}
    ELSE UNION {{<<x>> \o t : t \in SeqsOf(S \ {x})} : x \in S}

EndsWith(s, tok) == Len(s) > 0 /\ s[Len(s)] = tok

\* mutant: split in place of rsplit, the text before the first separator
LastSegment_First(s) ==
    LET cut == {i \in 1..Len(s) : s[i] = "/"}
        to == IF cut = {} THEN Len(s) + 1 ELSE CHOOSE i \in cut : \A j \in cut : i <= j
    IN SubSeq(s, 1, to - 1)

\* str::rsplit('/').next(): the text after the last separator (all of it if none)
LastSegment(s) ==
    LET cut == {i \in 1..Len(s) : s[i] = "/"}
        from == IF cut = {} THEN 0 ELSE CHOOSE i \in cut : \A j \in cut : j <= i
    IN SubSeq(s, from + 1, Len(s))

IsPrefix(p, s) == Len(p) <= Len(s) /\ SubSeq(s, 1, Len(p)) = p

\* ------------------------------------------------------------- text/bytes
\* a text is the sequence of its characters, a character is its code point (a Unicode
\* scalar value: 0..1114111 without the surrogates 55296..57343)
\* String::into bytes: the UTF-8 encoding of one character
CharBytes(c) ==
    IF c < 128 THEN <<c>>
    ELSE IF c < 2048 THEN <<192 + (c \div 64), 128 + (c % 64)>>
    ELSE IF c < 65536
         THEN <<224 + (c \div 4096), 128 + ((c \div 64) % 64), 128 + (c % 64)>>
    ELSE <<240 + (c \div 262144), 128 + ((c \div 4096) % 64), 128 + ((c \div 64) % 64),
           128 + (c % 64)>>

RECURSIVE Utf8Encode(_)
Utf8Encode(s) == IF s = <<>> THEN <<>> ELSE CharBytes(Head(s)) \o Utf8Encode(Tail(s))

\* the length of the encoded character that a lead byte begins
Utf8Width(lead) == IF lead < 128 THEN 1 ELSE IF lead < 224 THEN 2 ELSE IF lead < 240 THEN 3 ELSE 4
\* the bytes a lead byte admits right after it, and the continuation bytes
Utf8Second(lead) ==
    IF lead = 224 THEN 160..191
    ELSE IF lead = 237 THEN 128..159
    ELSE IF lead = 240 THEN 144..191
    ELSE IF lead = 244 THEN 128..143
    ELSE 128..191
Utf8Cont == 128..191

RECURSIVE Utf8Valid(_)
\* String::from_utf8 succeeds: one- to four-byte forms, no overlong form, no surrogate,
\* nothing above U+10FFFF
Utf8Valid(b) ==
    IF b = <<>> THEN TRUE
    ELSE LET lead == b[1]
             w == Utf8Width(lead)
         IN IF lead < 128 THEN Utf8Valid(Tail(b))
            ELSE /\ lead \in 194..244
                 /\ Len(b) >= w
                 /\ b[2] \in Utf8Second(lead)
                 /\ \A i \in 3..w : b[i] \in Utf8Cont
                 /\ Utf8Valid(SubSeq(b, w + 1, Len(b)))

\* the character a valid encoding stands for
CharOf(bytes) ==
    IF Len(bytes) = 1 THEN bytes[1]
    ELSE IF Len(bytes) = 2 THEN (bytes[1] - 192) * 64 + (bytes[2] - 128)
    ELSE IF Len(bytes) = 3
         THEN (bytes[1] - 224) * 4096 + (bytes[2] - 128) * 64 + (bytes[3] - 128)
    ELSE (bytes[1] - 240) * 262144 + (bytes[2] - 128) * 4096 + (bytes[3] - 128) * 64
         + (bytes[4] - 128)

RECURSIVE Utf8Decode(_)
\* String::from_utf8 on valid input
Utf8Decode(b) ==
    IF b = <<>> THEN <<>>
    ELSE LET w == Utf8Width(b[1])
         IN <<CharOf(SubSeq(b, 1, w))>> \o Utf8Decode(SubSeq(b, w + 1, Len(b)))

\* ---------------------------------------------------------------- results
Ok(v) == [tag |-> "Ok", val |-> v, kind |-> "", msg |-> <<>>]
Transport(m) == [tag |-> "Err", val |-> <<>>, kind |-> "Transport", msg |-> m]
Unimplemented(l) == [tag |-> "Err", val |-> <<>>, kind |-> "Unimplemented", msg |-> <<l>>]
IsOk(r) == r.tag = "Ok"
IsTransport(r) == r.tag = "Err" /\ r.kind = "Transport"
None == <<>>
Some(v) == <<v>>
EmptyMap == <<>>

\* -------------------------------------------------------- storage network
\* errors of the SDK: a server answer with a status, or a failure with none
ServerError(st) == [cls |-> "Server", status |-> st]
IoError == [cls |-> "Io", status |-> 0]
\* failures that say nothing about whether the resource exists
Faults == {ServerError(500), IoError}
\* what a request for a resource that does not exist answers
Absent == {ServerError(NOT_FOUND), ServerError(GONE)}

\* Display of an SDK error
ErrText(e) ==
    IF e.cls = "Io" THEN <<"io error">>
    ELSE IF e.status = NOT_FOUND THEN <<"server 404">>
    ELSE IF e.status = GONE THEN <<"server 410">>
    ELSE <<"server 500">>

\* an answer of the SDK: a value, or an error; cut = the body could not be read to its end
SdkOk(v) == [ok |-> TRUE, val |-> v, err |-> IoError, cut |-> FALSE, stage |-> "send"]
SdkCut == [ok |-> TRUE, val |-> <<>>, err |-> IoError, cut |-> TRUE, stage |-> "send"]
SdkErr(e) == [ok |-> FALSE, val |-> <<>>, err |-> e, cut |-> FALSE, stage |-> "send"]
\* a listing that fails before it is sent (storage.list(addr) itself returns the error)
SdkBuildErr(e) == [ok |-> FALSE, val |-> <<>>, err |-> e, cut |-> FALSE, stage |-> "build"]

\* the SDK resolves "pubky<key><path>" to a user and a path
AddrUser(addr) == addr[2]
AddrPath(addr) == SubSeq(addr, 3, Len(addr))

VARIABLES
    store,   \* the storage network: [user, path] -> bytes, for the documents that exist
    res,     \* the call that completed last (since the get_payment_list in flight began, if one
             \* is): its arguments, what the network answered, its result
    lst,     \* the get_payment_list call in flight, if any
    pub      \* history: what the successful set/remove calls of the session have published

vars == <<store, res, lst, pub>>

Key(u, p) == [user |-> u, path |-> p]
Exists(u, p) == Key(u, p) \in DOMAIN store

\* PubkyResource: owner and absolute path; its Display is the address
Resource(u, p) == [owner |-> u, path |-> p]
ResourceToString(r) == <<"pubky", r.owner>> \o r.path

\* the direct children of a directory: files, and one entry ending in "/" per subdirectory
ShallowEntries(u, dir) ==
    LET under == {k \in DOMAIN store : k.user = u /\ IsPrefix(dir, k.path) /\ Len(k.path) > Len(dir)}
        child(p) ==
            LET rest == SubSeq(p, Len(dir) + 1, Len(p))
                cut == {i \in 1..Len(rest) : rest[i] = "/"}
            IN IF cut = {} THEN p
               ELSE SubSeq(p, 1, Len(dir) + (CHOOSE i \in cut : \A j \in cut : i <= j))
    IN {Resource(u, child(k.path)) : k \in under}

\* answers of storage.get(addr): a response that carries the body the document has at
\* that moment, if the document exists
GetAnswers(addr) ==
    LET u == AddrUser(addr)
        p == AddrPath(addr)
    IN (IF Exists(u, p) THEN {SdkOk(store[Key(u, p)])} ELSE {SdkErr(e) : e \in Absent})
       \cup {SdkErr(e) : e \in Faults}

\* answers of resp.bytes() on a response that carries body: the body, or a failure
\* before its end
BytesAnswers(body) == {SdkOk(body), SdkCut}

\* answers of storage.list(addr).shallow(true).send(): the children in any order
ListAnswers(addr) ==
    LET es == ShallowEntries(AddrUser(addr), AddrPath(addr))
    IN {SdkOk(s) : s \in SeqsOf(es)}
       \cup (IF es = {} THEN {SdkErr(e) : e \in Absent} \cup {SdkBuildErr(e) : e \in Absent} ELSE {})
       \cup {SdkErr(e) : e \in Faults} \cup {SdkBuildErr(e) : e \in Faults}

\* a listed entry with no trailing segment: not a directory, nothing after the last "/"
MalformedEntry(u) == Resource(u, <<>>)
\* answers of a listing that holds such an entry among the children, in any order
ListAnswersMalformed(addr) ==
    {SdkOk(s) : s \in SeqsOf(ShallowEntries(AddrUser(addr), AddrPath(addr))
                              \cup {MalformedEntry(AddrUser(addr))})}

\* answers of session.storage().put(path, body) and .delete(path)
PutAnswers == {SdkOk(<<>>)} \cup {SdkErr(e) : e \in Faults}
DeleteAnswers(u, p) ==
    (IF Exists(u, p) THEN {SdkOk(<<>>)} ELSE {SdkErr(ServerError(NOT_FOUND))})
    \cup {SdkErr(e) : e \in Faults}

\* the store after a put / a delete that the network accepted
StorePut(u, p, bytes) ==
    [k \in DOMAIN store \cup {Key(u, p)} |-> IF k = Key(u, p) THEN bytes ELSE store[k]]
StoreDelete(u, p) == [k \in DOMAIN store \ {Key(u, p)} |-> store[k]]

\* ------------------------------------------------ unauthenticated adapter
\* mutant: every server status counts as not found
is_not_found_AnyStatus(err) == err.cls = "Server"

is_not_found(err) == err.cls = "Server" /\ err.status \in {NOT_FOUND, GONE}

\* mutant: an empty body is returned as an empty payload
fetch_text_KeepsEmpty(ans, label) ==
    IF ans.ok
    THEN IF ans.cut THEN Transport(label \o <<": ">> \o <<"body error">>)
         ELSE IF ~Utf8Valid(ans.val) THEN Transport(label \o <<": ">> \o <<"invalid utf-8">>)
         ELSE Ok(Some(Utf8Decode(ans.val)))
    ELSE IF is_not_found(ans.err) THEN Ok(None)
    ELSE Transport(label \o <<": ">> \o ErrText(ans.err))

\* mutant: a document that is not found is an error
fetch_text_AbsentIsError(ans, label) ==
    IF ans.ok
    THEN IF ans.cut THEN Transport(label \o <<": ">> \o <<"body error">>)
         ELSE IF ans.val = <<>> THEN Ok(None)
         ELSE IF ~Utf8Valid(ans.val) THEN Transport(label \o <<": ">> \o <<"invalid utf-8">>)
         ELSE Ok(Some(Utf8Decode(ans.val)))
    ELSE Transport(label \o <<": ">> \o ErrText(ans.err))

\* fetch_text, given the answer of inner.get(addr) when it is an error, and else the
\* answer of resp.bytes()
fetch_text(ans, label) ==
    IF ans.ok
    THEN IF ans.cut THEN Transport(label \o <<": ">> \o <<"body error">>)
         ELSE IF ans.val = <<>> THEN Ok(None)
         ELSE IF ~Utf8Valid(ans.val) THEN Transport(label \o <<": ">> \o <<"invalid utf-8">>)
         ELSE Ok(Some(Utf8Decode(ans.val)))
    ELSE IF is_not_found(ans.err) THEN Ok(None)
    ELSE Transport(label \o <<": ">> \o ErrText(ans.err))

\* mutant: a listing address that is not found is an error
list_entries_AbsentIsError(ans, label) ==
    IF ans.ok THEN Ok(ans.val)
    ELSE IF ans.stage = "build" THEN Transport(label \o <<": ">> \o ErrText(ans.err))
    ELSE Transport(label \o <<" send failed: ">> \o ErrText(ans.err))

\* list_entries, given the answer of inner.list(addr) and of the request it builds
list_entries(ans, label) ==
    IF ans.ok THEN Ok(ans.val)
    ELSE IF is_not_found(ans.err) THEN Ok(<<>>)
    ELSE IF ans.stage = "build" THEN Transport(label \o <<": ">> \o ErrText(ans.err))
    ELSE Transport(label \o <<" send failed: ">> \o ErrText(ans.err))

\* mutant: the address is built from the trailing segment of the method id
EndpointAddr_Trailing(payee, method) ==
    <<"pubky", payee>> \o PAYKIT_PATH_PREFIX \o LastSegment(method)

\* fetch_payment_endpoint: the address it reads, and its result from the answer
EndpointAddr(payee, method) == <<"pubky", payee>> \o PAYKIT_PATH_PREFIX \o method
\* mutant: the body is returned as it is, an empty one too
fetch_payment_endpoint_KeepsEmpty(ans) == fetch_text_KeepsEmpty(ans, <<"fetch endpoint">>)

fetch_payment_endpoint(ans) == fetch_text(ans, <<"fetch endpoint">>)

SupportedAddr(payee) == <<"pubky", payee>> \o PAYKIT_PATH_PREFIX
FollowsAddr(owner) == <<"pubky", owner>> \o PUBKY_FOLLOWS_PATH

\* HashMap::insert
MapInsert(map, k, v) == [x \in DOMAIN map \cup {k} |-> IF x = k THEN v ELSE map[x]]

RECURSIVE SkipDirs(_)
\* the loop of fetch_supported_payments up to the next entry that is not a pseudo-directory
SkipDirs(entries) ==
    IF entries = <<>> THEN <<>>
    ELSE IF EndsWith(Head(entries).path, "/") THEN SkipDirs(Tail(entries))
    ELSE entries

\* "str".parse::<PublicKey>(): the key a segment names, if it names one
ParsesAsKey(seg) == Len(seg) = 1 /\ seg[1] \in Keys
ParseKey(seg) == seg[1]

RECURSIVE ContactsLoop_Lenient(_, _)
\* mutant: an entry that names no key is dropped
ContactsLoop_Lenient(entries, contacts) ==
    IF entries = <<>> THEN Ok(contacts)
    ELSE LET path == Head(entries).path
             name == LastSegment(path)
         IN IF EndsWith(path, "/") \/ name = <<>> \/ ~ParsesAsKey(name)
            THEN ContactsLoop_Lenient(Tail(entries), contacts)
            ELSE ContactsLoop_Lenient(Tail(entries), Append(contacts, ParseKey(name)))

RECURSIVE ContactsLoop(_, _)
\* the loop of fetch_known_contacts over the listed entries
ContactsLoop(entries, contacts) ==
    IF entries = <<>> THEN Ok(contacts)
    ELSE LET path == Head(entries).path
             name == LastSegment(path)
         IN IF EndsWith(path, "/") THEN ContactsLoop(Tail(entries), contacts)
            ELSE IF name = <<>> THEN ContactsLoop(Tail(entries), contacts)
            ELSE IF ParsesAsKey(name)
                 THEN ContactsLoop(Tail(entries), Append(contacts, ParseKey(name)))
                 ELSE Transport(<<"invalid contact entry '">> \o name \o <<"': ">> \o <<"invalid key">>)

fetch_known_contacts(ans) ==
    LET listed == list_entries(ans, <<"list known contacts">>)
    IN IF ~IsOk(listed) THEN listed ELSE ContactsLoop(listed.val, <<>>)

\* -------------------------------------------------- authenticated adapter
upsert_payment_endpoint(ans) ==
    IF ans.ok THEN Ok(<<>>) ELSE Transport(<<"put endpoint: ">> \o ErrText(ans.err))

\* mutant: the error of the delete is dropped
remove_payment_endpoint_Silent(ans) == Ok(<<>>)

remove_payment_endpoint(ans) ==
    IF ans.ok THEN Ok(<<>>) ELSE Transport(<<"delete endpoint: ">> \o ErrText(ans.err))

\* ------------------------------------------------------------------ facade
\* mutant: the message is replaced by the label
map_transport_error_LabelOnly(label, r) ==
    IF IsOk(r) THEN r ELSE Transport(<<label>>)

map_transport_error(label, r) ==
    IF IsOk(r) THEN r
    ELSE IF r.kind = "Transport" THEN Transport(<<label, ": ">> \o r.msg)
    ELSE r

FacadeOps == {"set_payment_endpoint", "remove_payment_endpoint", "get_payment_list",
              "get_payment_endpoint", "get_known_contacts"}

\* ------------------------------------------------------------------- state
NoMethod == <<>>
\* the read in flight.  pc: "fetch" = a get_payment_list waits for the get of the first
\* pending entry, "bytes" = it waits for the body of that entry's response, "endpoint" =
\* a get_payment_endpoint of method waits for the body of its response; resp is the body
\* the response carries.  fetched: for each entry whose content was requested, the
\* document the store held at that moment (None if it held none); prior: the result of
\* the get_payment_list read just before a get_payment_endpoint began; overlap: the
\* writes that completed since the read began
Idle == [pc |-> "idle", payee |-> "", method |-> NoMethod, listed |-> <<>>, pending |-> <<>>,
         map |-> EmptyMap, resp |-> <<>>, fetched |-> EmptyMap, prior |-> None, seen |-> {},
         overlap |-> 0]

\* a completed call: op and arguments, the network errors it was answered (seen), the
\* capability's result (cap), the facade's result (out), and for get_payment_list
\* whether no write completed while it was in flight (quiet); via tells the Pubky
\* adapters from another implementation of the capability.  data is the payload of
\* a set, the document a remove found at the address (None if there was none), the map
\* gathered when a get_payment_list ended, the listing get_known_contacts read, for a
\* get_payment_endpoint the result of the get_payment_list read just before it; listed
\* is the listing a get_payment_list or a get_known_contacts was answered, fetched what
\* the store held for each entry of a get_payment_list when its content was requested
Done(op, payee, method, data, seen, cap, quiet) ==
    [op |-> op, payee |-> payee, method |-> method, data |-> data, seen |-> seen,
     cap |-> cap, out |-> map_transport_error(op, cap), quiet |-> quiet, via |-> "pubky",
     listed |-> <<>>, fetched |-> EmptyMap]
\* a completed call that began with a listing
DoneListed(op, payee, listed, data, seen, cap, quiet) ==
    [Done(op, payee, NoMethod, data, seen, cap, quiet) EXCEPT !.listed = listed]

\* no call has completed yet
NoResult == Done("none", "", NoMethod, <<>>, {}, Ok(<<>>), TRUE)

\* the errors an answer carries
SeenOf(ans) == IF ans.ok THEN (IF ans.cut THEN {IoError} ELSE {}) ELSE {ans.err}

\* the last successful write: its method, and what the method had published before it
NoWrite == [op |-> "none", method |-> NoMethod, had |-> None]

Init ==
    /\ store = <<>>
    /\ res = NoResult
    /\ lst = Idle
    /\ pub = [map |-> EmptyMap, last |-> NoWrite]

\* a write completed: a read in flight is no longer quiet
Disturb == IF lst.pc = "idle" THEN lst ELSE [lst EXCEPT !.overlap = @ + 1]
\* a write may begin: no read is in flight, or fewer than MaxOverlap writes overlapped it
MayWrite == lst.pc = "idle" \/ lst.overlap < MaxOverlap

\* mutant: the path is built from the trailing segment of the method id
EndpointPath_Trailing(method) == PAYKIT_PATH_PREFIX \o LastSegment(method)

\* the path a write of the session addresses
EndpointPath(method) == PAYKIT_PATH_PREFIX \o method
PaykitFiles == {k \in DOMAIN store : k.user = Owner /\ IsPrefix(PAYKIT_PATH_PREFIX, k.path)}

\* set_payment_endpoint(client, method, data) over the session of Owner
SetPaymentEndpoint(method, data) ==
    /\ MayWrite
    /\ Exists(Owner, EndpointPath(method)) \/ Cardinality(PaykitFiles) < MaxFiles
    /\ \E ans \in PutAnswers :
         LET cap == upsert_payment_endpoint(ans)
         IN /\ res' = Done("set_payment_endpoint", Owner, method, data, SeenOf(ans), cap, TRUE)
            /\ IF ans.ok
               THEN /\ store' = StorePut(Owner, EndpointPath(method), Utf8Encode(data))
                    /\ pub' = [map |-> MapInsert(pub.map, method, data),
                               last |-> [op |-> "set", method |-> method,
                                         had |-> IF method \in DOMAIN pub.map
                                                 THEN Some(pub.map[method]) ELSE None]]
                    /\ lst' = Disturb
               ELSE UNCHANGED <<store, pub, lst>>

\* remove_payment_endpoint(client, method) over the session of Owner
RemovePaymentEndpoint(method) ==
    MayWrite /\ \E ans \in DeleteAnswers(Owner, EndpointPath(method)) :
       LET cap == remove_payment_endpoint(ans)
           found == IF Exists(Owner, EndpointPath(method))
                    THEN Some(store[Key(Owner, EndpointPath(method))]) ELSE None
       IN /\ res' = Done("remove_payment_endpoint", Owner, method, found, SeenOf(ans), cap, TRUE)
          /\ IF ans.ok
             THEN /\ store' = StoreDelete(Owner, EndpointPath(method))
                  /\ pub' = [map |-> [x \in DOMAIN pub.map \ {method} |-> pub.map[x]],
                             last |-> [op |-> "remove", method |-> method,
                                       had |-> IF method \in DOMAIN pub.map
                                               THEN Some(pub.map[method]) ELSE None]]
                  /\ lst' = Disturb
             ELSE UNCHANGED <<store, pub, lst>>

\* the result of the call that completed last, if that was a get_payment_list of payee
\* which no write overlapped and which the network answered from what is stored
ListJustRead(payee) ==
    IF res.op = "get_payment_list" /\ res.payee = payee /\ res.quiet
       /\ res.via = "pubky" /\ res.seen \subseteq Absent
    THEN Some(res.out) ELSE None

\* get_payment_endpoint(reader, payee, method): the get request; an error ends the call
GetPaymentEndpoint(payee, method) ==
    /\ lst.pc = "idle"
    /\ \E ans \in GetAnswers(EndpointAddr(payee, method)) :
         IF ans.ok
         THEN /\ lst' = [Idle EXCEPT !.pc = "endpoint", !.payee = payee, !.method = method,
                                     !.resp = ans.val, !.prior = ListJustRead(payee)]
              /\ res' = NoResult
         ELSE /\ res' = Done("get_payment_endpoint", payee, method, ListJustRead(payee),
                             SeenOf(ans), fetch_payment_endpoint(ans), TRUE)
              /\ lst' = Idle
    /\ UNCHANGED <<store, pub>>

\* get_payment_endpoint: the body of the response is read, the call returns
GetPaymentEndpointBytes ==
    /\ lst.pc = "endpoint"
    /\ \E ans \in BytesAnswers(lst.resp) :
         res' = Done("get_payment_endpoint", lst.payee, lst.method, lst.prior,
                     SeenOf(ans), fetch_payment_endpoint(ans), lst.overlap = 0)
    /\ lst' = Idle
    /\ UNCHANGED <<store, pub>>

\* the end of a get_payment_list l with the result cap of the capability
ListDone(l, cap) ==
    [DoneListed("get_payment_list", l.payee, l.listed, l.map, l.seen, cap, l.overlap = 0)
        EXCEPT !.fetched = l.fetched]

\* fetch_supported_payments from the entries still to visit: it ends (with the map, or
\* with the error of an entry that has no trailing segment) or waits for the next document
ListContinue(l) ==
    LET rest == SkipDirs(l.pending)
    IN IF rest = <<>>
       THEN /\ res' = ListDone(l, Ok(l.map))
            /\ lst' = Idle
       ELSE IF LastSegment(Head(rest).path) = <<>>
       THEN /\ res' = ListDone(l, Transport(<<"invalid resource returned for supported payment entry">>))
            /\ lst' = Idle
       ELSE /\ lst' = [l EXCEPT !.pc = "fetch", !.pending = rest]
            /\ res' = IF lst.pc = "idle" THEN NoResult ELSE res

\* get_payment_list(reader, payee): the listing request, answered one of answers
GetPaymentListBegin(payee, answers) ==
    /\ lst.pc = "idle"
    /\ \E ans \in answers :
         LET listed == list_entries(ans, <<"list supported payments">>)
             l == [Idle EXCEPT !.payee = payee, !.seen = SeenOf(ans)]
         IN IF IsOk(listed)
            THEN ListContinue([l EXCEPT !.listed = listed.val, !.pending = listed.val])
            ELSE /\ res' = ListDone(l, listed)
                 /\ lst' = Idle
    /\ UNCHANGED <<store, pub>>

\* get_payment_list(reader, payee) over the storage network
GetPaymentListStart(payee) == GetPaymentListBegin(payee, ListAnswers(SupportedAddr(payee)))

\* mutant: an entry whose document is absent or empty ends the call with an error
ListFetched_Strict(l, method, got) ==
    IF IsOk(got) /\ got.val # None
    THEN ListContinue([l EXCEPT !.pending = Tail(l.pending), !.resp = <<>>,
                                !.map = MapInsert(l.map, method, got.val[1])])
    ELSE /\ res' = ListDone(l, Transport(<<"fetch endpoint ">> \o method \o <<": missing">>))
         /\ lst' = Idle

\* fetch_text returned got for the first pending entry of l: the error ends the call,
\* a payload is inserted, and the loop goes on with the next entry
ListFetched(l, method, got) ==
    IF IsOk(got)
    THEN ListContinue([l EXCEPT !.pending = Tail(l.pending), !.resp = <<>>,
                                !.map = IF got.val = None THEN l.map
                                        ELSE MapInsert(l.map, method, got.val[1])])
    ELSE /\ res' = ListDone(l, got)
         /\ lst' = Idle

\* get_payment_list: the get request for the content of the next listed entry
GetPaymentListFetch ==
    /\ lst.pc = "fetch"
    /\ LET resource == Head(lst.pending)
           method == LastSegment(resource.path)
           held == IF Exists(resource.owner, resource.path)
                   THEN Some(store[Key(resource.owner, resource.path)]) ELSE None
       IN \E ans \in GetAnswers(ResourceToString(resource)) :
            LET l == [lst EXCEPT !.seen = lst.seen \cup SeenOf(ans),
                                 !.fetched = MapInsert(lst.fetched, method, held)]
            IN IF ans.ok
               THEN /\ lst' = [l EXCEPT !.pc = "bytes", !.resp = ans.val]
                    /\ res' = res
               ELSE ListFetched(l, method, fetch_text(ans, <<"fetch endpoint ">> \o method))
    /\ UNCHANGED <<store, pub>>

\* get_payment_list: the body of the entry's response is read
GetPaymentListBytes ==
    /\ lst.pc = "bytes"
    /\ LET method == LastSegment(Head(lst.pending).path)
       IN \E ans \in BytesAnswers(lst.resp) :
            ListFetched([lst EXCEPT !.seen = lst.seen \cup SeenOf(ans)], method,
                        fetch_text(ans, <<"fetch endpoint ">> \o method))
    /\ UNCHANGED <<store, pub>>

\* a facade operation over some other implementation of the capability traits,
\* which returns what it likes
StubResults == {Ok(<<>>), Transport(<<"boom">>), Unimplemented("stub")}
StubCall(op, cap) ==
    /\ res' = [Done(op, Owner, NoMethod, <<>>, {}, cap, TRUE) EXCEPT !.via = "stub"]
    /\ UNCHANGED <<store, lst, pub>>

\* ---------------------------------------------------------------- contacts
MarkerPath(name) == PUBKY_FOLLOWS_PATH \o name
MarkerFiles == {k \in DOMAIN store : k.user = Owner /\ IsPrefix(PUBKY_FOLLOWS_PATH, k.path)}

\* the owner's session puts an empty marker file under the follows directory
PutMarker(name) ==
    /\ Exists(Owner, MarkerPath(name)) \/ Cardinality(MarkerFiles) < MaxMarkers
    /\ store' = StorePut(Owner, MarkerPath(name), <<>>)
    /\ res' = [Done("storage.put", Owner, name, <<>>, {}, Ok(<<>>), TRUE) EXCEPT !.via = "session"]
    /\ UNCHANGED <<lst, pub>>

\* get_known_contacts(reader, key), the listing request answered one of answers
GetKnownContactsBegin(key, answers) ==
    \E ans \in answers :
       LET listed == IF ans.ok THEN ans.val ELSE <<>>
       IN /\ res' = DoneListed("get_known_contacts", key, listed, listed,
                               SeenOf(ans), fetch_known_contacts(ans), TRUE)
          /\ UNCHANGED <<store, lst, pub>>

\* get_known_contacts(reader, key) over the storage network
GetKnownContacts(key) == GetKnownContactsBegin(key, ListAnswers(FollowsAddr(key)))

\* no read is in flight
Quiescent == lst.pc = "idle"

\* the calls one after the other: a call begins when none is in flight
Next ==
    \/ Quiescent /\ \E m \in MethodIds, d \in Datas : SetPaymentEndpoint(m, d)
    \/ Quiescent /\ \E m \in MethodIds : RemovePaymentEndpoint(m)
    \/ Quiescent /\ \E k \in Keys, m \in MethodIds : GetPaymentEndpoint(k, m)
    \/ \E k \in Keys : GetPaymentListStart(k)
    \/ GetPaymentEndpointBytes
    \/ GetPaymentListFetch
    \/ GetPaymentListBytes
    \/ Quiescent /\ \E k \in Keys : GetKnownContacts(k)
    \/ Quiescent /\ \E op \in FacadeOps, cap \in StubResults : StubCall(op, cap)

Spec == Init /\ [][Next]_vars

\* the payloads written while a get_payment_list may be in flight: the empty one and a text
ConcurrentDatas == {<<>>, <<233>>}

\* the writes of the session interleaved with the steps of a get_payment_list
NextConcurrent ==
    \/ \E m \in MethodIds, d \in ConcurrentDatas : SetPaymentEndpoint(m, d)
    \/ \E m \in MethodIds : RemovePaymentEndpoint(m)
    \/ \E k \in Keys : GetPaymentListStart(k)
    \/ GetPaymentListFetch
    \/ GetPaymentListBytes

SpecConcurrent == Init /\ [][NextConcurrent]_vars

\* the writes of the session interleaved with the steps of a get_payment_endpoint
NextConcurrentGet ==
    \/ \E m \in MethodIds, d \in ConcurrentDatas : SetPaymentEndpoint(m, d)
    \/ \E m \in MethodIds : RemovePaymentEndpoint(m)
    \/ \E k \in Keys, m \in MethodIds : GetPaymentEndpoint(k, m)
    \/ GetPaymentEndpointBytes

SpecConcurrentGet == Init /\ [][NextConcurrentGet]_vars

NextContacts ==
    \/ \E n \in MarkerNames : PutMarker(n)
    \/ \E k \in Keys : GetKnownContacts(k)

SpecContacts == Init /\ [][NextContacts]_vars

\* the two listing resolutions when the listing holds an entry with no trailing segment
GetPaymentListMalformed(payee) ==
    GetPaymentListBegin(payee, ListAnswersMalformed(SupportedAddr(payee)))
GetKnownContactsMalformed(key) ==
    GetKnownContactsBegin(key, ListAnswersMalformed(FollowsAddr(key)))

NextMalformed ==
    \/ Quiescent /\ \E m \in MethodIds, d \in Datas : SetPaymentEndpoint(m, d)
    \/ Quiescent /\ \E n \in MarkerNames : PutMarker(n)
    \/ \E k \in Keys : GetPaymentListMalformed(k)
    \/ GetPaymentListFetch
    \/ GetPaymentListBytes
    \/ Quiescent /\ \E k \in Keys : GetKnownContactsMalformed(k)

SpecMalformed == Init /\ [][NextMalformed]_vars

\* ------------------------------------------------------------ properties
\* the network answered the call from what is stored: no failure but not-found/gone
Faithful == res.via = "pubky" /\ res.seen \subseteq Absent
HasSlash(m) == \E i \in 1..Len(m) : m[i] = "/"

GotEndpoint(m) == res.op = "get_payment_endpoint" /\ res.payee = Owner /\ res.method = m /\ Faithful
\* a get_payment_list of the owner's endpoints that no write overlapped
GotList == res.op = "get_payment_list" /\ res.payee = Owner /\ res.quiet /\ Faithful
LastSet(m) == pub.last.op = "set" /\ pub.last.method = m
LastRemove(m) == pub.last.op = "remove" /\ pub.last.method = m

\* C1 as stated: a set_payment_endpoint(m, d) followed, with no write in between, by
\* get_payment_endpoint(payee, m) returns Some(d), whatever the payload d
C1_AnyPayload ==
    \A m \in MethodIds : GotEndpoint(m) /\ LastSet(m) => res.out = Ok(Some(pub.map[m]))

\* C1 amended: set_payment_endpoint(m, d) with a non-empty payload d followed, with no
\* write in between, by get_payment_endpoint(payee, m) returns Some(d); an empty
\* payload reads back as None
C1_RoundTrip ==
    \A m \in MethodIds :
        GotEndpoint(m) /\ LastSet(m) =>
            res.out = Ok(IF pub.map[m] = <<>> THEN None ELSE Some(pub.map[m]))

C1_Witness ==
    /\ GotEndpoint(<<"a", "/", "b">>) /\ LastSet(<<"a", "/", "b">>)
    /\ res.out = Ok(Some(<<233>>))

\* the entries get_payment_list shows of what is published: the methods whose payload is
\* not empty and whose id is a single path segment
Listed(map) == [m \in {x \in DOMAIN map : map[x] # <<>> /\ ~HasSlash(x)} |-> map[m]]

\* C2 as stated: after successful set/remove calls, get_payment_list returns exactly the
\* methods currently set, each with its latest payload
C2_ExactlyPublished == GotList => res.out = Ok(pub.map)

\* C2 amended: after successful set/remove calls, get_payment_list returns exactly the
\* methods currently set whose latest payload is non-empty and whose id contains no
\* '/', each with its latest payload; it is empty once every set method is removed
C2_ListIsPublished == GotList => res.out = Ok(Listed(pub.map))

C2_Witness ==
    /\ GotList
    /\ pub.map = [m \in {<<"a">>, <<"b">>} |-> IF m = <<"a">> THEN <<120>> ELSE <<233>>]
    /\ res.out = Ok(pub.map)
    /\ pub.last.op = "set" /\ pub.last.had # None

\* the method was set twice in a row, with two different payloads
SetTwice(m) == LastSet(m) /\ pub.last.had # None /\ pub.last.had # Some(pub.map[m])

\* C3 as stated: after setting a method with d1 and then with d2 # d1,
\* get_payment_endpoint returns Some(d2) and get_payment_list has the method with d2
C3_LatestAlways ==
    \A m \in MethodIds :
        SetTwice(m) =>
            /\ GotEndpoint(m) => res.out = Ok(Some(pub.map[m]))
            /\ GotList => IsOk(res.out) /\ m \in DOMAIN res.out.val /\ res.out.val[m] = pub.map[m]

\* C3 amended: after setting a method with d1 and then with d2 # d1, no read returns d1;
\* get_payment_endpoint returns Some(d2) if d2 is non-empty and None if it is empty;
\* get_payment_list has one entry for the method, with value d2, if d2 is non-empty and
\* the method id contains no '/', and no entry for it otherwise
C3_LatestWins ==
    \A m \in MethodIds :
        SetTwice(m) =>
            LET d1 == pub.last.had[1]
                d2 == pub.map[m]
            IN /\ GotEndpoint(m) =>
                    /\ res.out = Ok(IF d2 = <<>> THEN None ELSE Some(d2))
                    /\ res.out # Ok(Some(d1))
               /\ GotList =>
                    /\ IsOk(res.out)
                    /\ m \in DOMAIN res.out.val <=> (d2 # <<>> /\ ~HasSlash(m))
                    /\ m \in DOMAIN res.out.val => res.out.val[m] = d2 /\ res.out.val[m] # d1

C3_Witness ==
    /\ SetTwice(<<"a">>) /\ GotList
    /\ pub.last.had = Some(<<120>>)
    /\ res.out = Ok([m \in {<<"a">>} |-> <<233>>])

\* C4 as stated: after remove_payment_endpoint(m) succeeds the reads no longer show m,
\* and show every other method that is set, with its payload
C4_OthersAlways ==
    \A m \in MethodIds :
        LastRemove(m) =>
            /\ GotEndpoint(m) => res.out = Ok(None)
            /\ GotList => IsOk(res.out) /\ m \notin DOMAIN res.out.val
            /\ \A o \in DOMAIN pub.map :
                 /\ GotEndpoint(o) => res.out = Ok(Some(pub.map[o]))
                 /\ GotList => o \in DOMAIN res.out.val /\ res.out.val[o] = pub.map[o]

\* C4 amended: after remove_payment_endpoint(m) succeeds, get_payment_endpoint(m)
\* returns None and get_payment_list does not contain m; every other method that is
\* set with a non-empty payload is still returned with that payload by
\* get_payment_endpoint, and by get_payment_list if its id contains no '/'
C4_RemoveFrame ==
    \A m \in MethodIds :
        LastRemove(m) =>
            /\ GotEndpoint(m) => res.out = Ok(None)
            /\ GotList => IsOk(res.out) /\ m \notin DOMAIN res.out.val
            /\ \A o \in DOMAIN pub.map :
                 pub.map[o] # <<>> =>
                    /\ GotEndpoint(o) => res.out = Ok(Some(pub.map[o]))
                    /\ GotList /\ ~HasSlash(o) =>
                           o \in DOMAIN res.out.val /\ res.out.val[o] = pub.map[o]

C4_Witness ==
    /\ LastRemove(<<"a">>) /\ pub.last.had = Some(<<120>>)
    /\ GotList
    /\ res.out = Ok([m \in {<<"b">>} |-> <<233>>])

\* C5: remove_payment_endpoint(m) returns an error whenever no document exists at the
\* address of m when it is called (never set, or already removed)
C5_RemoveMissingFails ==
    res.op = "remove_payment_endpoint" /\ res.via = "pubky" /\ res.data = None =>
        ~IsOk(res.out) /\ IsTransport(res.out)

C5_Witness ==
    /\ res.op = "remove_payment_endpoint" /\ LastRemove(res.method) /\ res.data = None
    /\ res.seen = {ServerError(NOT_FOUND)}
    /\ res.out = Transport(<<"remove_payment_endpoint", ": ", "delete endpoint: ", "server 404">>)

\* the payee has no document under the payment namespace
NothingPublished(payee) ==
    ~\E k \in DOMAIN store : k.user = payee /\ IsPrefix(PAYKIT_PATH_PREFIX, k.path)

\* C6: for a payee that has published no endpoint, get_payment_list returns Ok with an
\* empty collection and get_payment_endpoint returns Ok(None) for every method
C6_AbsenceIsEmpty ==
    \A k \in Keys :
        NothingPublished(k) /\ res.payee = k /\ Faithful =>
            /\ res.op = "get_payment_list" /\ res.quiet => res.out = Ok(EmptyMap)
            /\ res.op = "get_payment_endpoint" => res.out = Ok(None)

C6_Witness ==
    /\ NothingPublished("bob") /\ res.payee = "bob"
    /\ res.op = "get_payment_list" /\ res.seen = {ServerError(GONE)}
    /\ res.out = Ok(EmptyMap)

\* the names of the marker files directly under the follows directory of a key
DirectMarkers(key) ==
    {n \in MarkerNames : ~HasSlash(n) /\ Exists(key, PUBKY_FOLLOWS_PATH \o n)}
Range(s) == {s[i] : i \in 1..Len(s)}

\* C7: get_known_contacts returns an empty sequence when the owner has no marker file,
\* and otherwise (the markers' names being keys) exactly the keys parsed from the names
\* of the marker files directly under the follows directory, each once, in any order
C7_ContactsAreMarkers ==
    \A k \in Keys :
        res.op = "get_known_contacts" /\ res.payee = k /\ Faithful
        /\ (\A n \in DirectMarkers(k) : ParsesAsKey(n)) =>
            /\ IsOk(res.out)
            /\ Range(res.out.val) = {ParseKey(n) : n \in DirectMarkers(k)}
            /\ Len(res.out.val) = Cardinality(DirectMarkers(k))
            /\ DirectMarkers(k) = {} => res.out.val = <<>>

C7_Witness ==
    /\ res.op = "get_known_contacts" /\ res.payee = Owner
    /\ DirectMarkers(Owner) = {<<"alice">>, <<"bob">>}
    /\ res.out = Ok(<<"bob", "alice">>)

\* the text s occurs in the message msg
Contains(msg, s) == \E i \in 1..Len(msg) : i + Len(s) - 1 <= Len(msg) /\ SubSeq(msg, i, i + Len(s) - 1) = s
\* the positions of the listed entries that are no directory and name no key
Malformed(entries) ==
    {i \in 1..Len(entries) :
        ~EndsWith(entries[i].path, "/") /\ ~ParsesAsKey(LastSegment(entries[i].path))}

\* C8: if a listed entry that is no directory has a trailing segment that is no public
\* key, get_known_contacts fails with a Transport error whose message contains the
\* segment of the first such entry of the listing, and returns no contact, wherever
\* the valid entries stand in the listing
C8_MalformedContactFails ==
    res.op = "get_known_contacts" /\ res.via = "pubky" /\ Malformed(res.data) # {} =>
        LET first == CHOOSE i \in Malformed(res.data) : \A j \in Malformed(res.data) : i <= j
        IN /\ IsTransport(res.out)
           /\ Contains(res.out.msg, LastSegment(res.data[first].path))
           /\ res.out.val = <<>>

C8_Witness ==
    /\ res.op = "get_known_contacts"
    /\ Len(res.data) = 2 /\ Malformed(res.data) = {2}
    /\ LastSegment(res.data[1].path) = <<"bob">>
    /\ res.out = Transport(<<"get_known_contacts", ": ", "invalid contact entry '", "oops",
                             "': ", "invalid key">>)

\* C9: a facade operation returns the capability's success unchanged, a Transport(msg)
\* as Transport("<operation>: " + msg), and any other error unchanged
C9_FacadeLabels ==
    res.op \in FacadeOps =>
        /\ IsOk(res.cap) => res.out = res.cap
        /\ IsTransport(res.cap) =>
              /\ IsTransport(res.out)
              /\ res.out.msg = <<res.op, ": ">> \o res.cap.msg
        /\ ~IsOk(res.cap) /\ ~IsTransport(res.cap) => res.out = res.cap
        /\ IsOk(res.out) <=> IsOk(res.cap)

C9_Witness ==
    /\ res.op = "get_payment_list"
    /\ res.cap = Transport(<<"fetch endpoint ", "b", ": ", "server 500">>)
    /\ res.out = Transport(<<"get_payment_list", ": ", "fetch endpoint ", "b", ": ", "server 500">>)

ReadOps == {"get_payment_list", "get_payment_endpoint", "get_known_contacts"}

\* C10: a read operation that was answered a failure other than not-found/gone, by the
\* listing request or by any content fetch, returns a Transport error and no partial
\* result; only not-found/gone answers are turned into an empty or absent result
C10_NoSwallowing ==
    res.op \in ReadOps /\ res.via = "pubky" =>
        /\ ~Faithful => IsTransport(res.out) /\ res.out.val = <<>>
        /\ IsOk(res.out) => \A e \in res.seen : e.cls = "Server" /\ e.status \in {NOT_FOUND, GONE}

C10_Witness ==
    /\ res.op = "get_payment_list"
    /\ res.data # EmptyMap
    /\ ServerError(500) \in res.seen
    /\ IsTransport(res.out)

\* the positions of the listed entries that are no directory and have no trailing segment
NoSegment(entries) ==
    {i \in 1..Len(entries) :
        ~EndsWith(entries[i].path, "/") /\ LastSegment(entries[i].path) = <<>>}

\* C11: in both listing resolutions (get_payment_list and get_known_contacts), a listed
\* entry that is no pseudo-directory and has no non-empty segment after the last "/"
\* makes the whole operation fail: the call never succeeds with the entry skipped
C11_NoSegmentFails ==
    res.op \in {"get_payment_list", "get_known_contacts"} /\ res.via = "pubky"
    /\ NoSegment(res.listed) # {} => ~IsOk(res.out)

\* the half of C11 that the code keeps: get_payment_list fails on such an entry
C11_PaymentsHalf ==
    res.op = "get_payment_list" /\ res.via = "pubky" /\ NoSegment(res.listed) # {} =>
        ~IsOk(res.out)
\* the listed methods: the trailing segments of the entries that are no directory
ListedMethods(entries) ==
    {LastSegment(entries[i].path) : i \in {j \in 1..Len(entries) : ~EndsWith(entries[j].path, "/")}}
\* the store held no document, or an empty one
Bodiless(held) == held = None \/ held = Some(<<>>)
\* a listed method whose document was absent or empty when its content was requested
SkippedMethods == {m \in DOMAIN res.fetched : Bodiless(res.fetched[m])}

\* C12: when a get_payment_list interleaves with writes so that a listed method has no
\* document (or an empty one) by the time its content is fetched, and the network
\* reports no other failure, the call succeeds: the result omits that method and holds,
\* for every other listed method, the text of the non-empty document that was fetched
C12_RaceIsSkipped ==
    res.op = "get_payment_list" /\ res.via = "pubky" /\ res.seen \subseteq Absent
    /\ SkippedMethods # {} =>
        /\ IsOk(res.out)
        /\ DOMAIN res.fetched = ListedMethods(res.listed)
        /\ res.out.val = [m \in DOMAIN res.fetched \ SkippedMethods |->
                             Utf8Decode(res.fetched[m][1])]

\* a remove of "a" completed between the listing and the fetch of "a"
C12_Witness ==
    /\ res.op = "get_payment_list" /\ ~res.quiet /\ LastRemove(<<"a">>)
    /\ ListedMethods(res.listed) = {<<"a">>, <<"b">>}
    /\ res.fetched = [m \in {<<"a">>, <<"b">>} |->
                         IF m = <<"a">> THEN None ELSE Some(<<195, 169>>)]
    /\ res.seen = {ServerError(NOT_FOUND)}
    /\ res.out = Ok([m \in {<<"b">>} |-> <<233>>])
\* the call that completed last is a get_payment_endpoint of m that the network answered
\* from what is stored, right after such a get_payment_list of the same payee
ReadBoth(m) == GotEndpoint(m) /\ res.data # None
\* the get_payment_list read just before contains the entry (m, d)
ListHas(m, d) ==
    IsOk(res.data[1]) /\ m \in DOMAIN res.data[1].val /\ res.data[1].val[m] = d

\* C13 as stated: in every quiescent store state reached by set_payment_endpoint and
\* remove_payment_endpoint, for every method m (ids with "/" and empty payloads included)
\* get_payment_list contains (m, d) if and only if get_payment_endpoint(m) returns Some(d)
C13_ReadPathsAgreeAll ==
    \A m \in MethodIds, d \in Datas :
        ReadBoth(m) => (ListHas(m, d) <=> res.out = Ok(Some(d)))

\* C13 amended: the same for every method id that is a single path segment (no "/")
C13_ReadPathsAgree ==
    \A m \in MethodIds, d \in Datas :
        ReadBoth(m) /\ ~HasSlash(m) => (ListHas(m, d) <=> res.out = Ok(Some(d)))

\* both reads return the payload of "a" while "b" is set with the empty payload
C13_Witness ==
    /\ ReadBoth(<<"a">>) /\ ListHas(<<"a">>, <<233>>) /\ res.out = Ok(Some(<<233>>))
    /\ DOMAIN pub.map = {<<"a">>, <<"b">>} /\ pub.map[<<"b">>] = <<>>
    /\ DOMAIN res.data[1].val = {<<"a">>}
====
